---------------------------- MODULE Spec2Model ----------------------------
(***************************************************************************)
(* A model of the SVG path interpreter of src/scripts/path_parser.py       *)
(* (class PathParser).                                                     *)
(*                                                                         *)
(* A string is the sequence of its characters, and so is a token, the      *)
(* string re.findall produced: <<"M">>, <<"1","0">>, <<"-","3">>,          *)
(* <<"2",".","5">>.                                                        *)
(* A number is kept exactly, as an integer count of 1/Scale units, so the  *)
(* eleven Bezier samples (denominators 10^2 and 10^3) are exact rationals. *)
(* The model therefore has the arithmetic of the code without the rounding *)
(* of binary floating point.  At t = 0 and t = 1 the code's floating       *)
(* point results are exact as well (every product is by 0.0 or 1.0).       *)
(*                                                                         *)
(* A point of an elliptical arc is a value of cos, sin and atan2.  The     *)
(* arcs whose angles are multiples of 18 degrees are evaluated, with cos   *)
(* and sin from a table of four decimals; a point of any other arc is kept *)
(* as the term <<i, rx, ry, x_rot, large_arc, sweep, x1, y1, x2, y2>>,     *)
(* "sample i of generate_arc_points(...)": a ten-tuple, never equal to a   *)
(* pair <<x, y>>.                                                          *)
(***************************************************************************)
EXTENDS Integers, Sequences, FiniteSets, TLC

VARIABLES
    commands,          \* self.commands: the tokens not yet popped
    current_position,  \* self.current_position: <<x, y>>
    points,            \* self.points
    last_command,      \* self.last_command: None or a token
    control_point,     \* self.control_point: None or <<x, y>>
    pc,                \* "loop": inside parse(); "returned"; "raised"
    exc,               \* the exception parse() ended with, "" if none
    path,              \* the token list __init__ built (never changed)
    path_data,         \* the argument of __init__, as its characters
    other              \* a second PathParser instance: the record of its
                       \* fields, None where there is only one instance

vars == <<commands, current_position, points, last_command, control_point,
          pc, exc, path, path_data, other>>

None == <<>>

\* i / 10 for i in range(11): the parameter values are i / NumPoints
NumPoints == 10

\* One unit is Scale model integers: 10 for one decimal digit of a token,
\* NumPoints^3 for the denominators of the cubic Bezier samples.
Scale == 10 * NumPoints * NumPoints * NumPoints

-----------------------------------------------------------------------------
(* Tokens and the conversions float() and int()                            *)

Letters == {"M", "m", "L", "l", "H", "h", "V", "v", "C", "c",
            "S", "s", "Q", "q", "T", "t", "A", "a", "Z", "z"}

Digits == {"0", "1", "2", "3", "4", "5", "6", "7", "8", "9"}

DigitVal == ("0" :> 0) @@ ("1" :> 1) @@ ("2" :> 2) @@ ("3" :> 3) @@ ("4" :> 4)
            @@ ("5" :> 5) @@ ("6" :> 6) @@ ("7" :> 7) @@ ("8" :> 8) @@ ("9" :> 9)

IsLetter(tok) == Len(tok) = 1 /\ tok[1] \in Letters

\* the length of the longest run of digits of s that starts at index i
RECURSIVE DigitRun(_, _)
DigitRun(s, i) ==
    IF i <= Len(s) /\ s[i] \in Digits THEN 1 + DigitRun(s, i + 1) ELSE 0

\* NumberMatch changed to let a minus sign match with no digit after it
NumberMatchLoose(s, i) ==
    LET m == IF s[i] = "-" THEN 1 ELSE 0
        n == DigitRun(s, i + m)
        d == IF n > 0 /\ i + m + n <= Len(s) /\ s[i + m + n] = "." THEN 1 ELSE 0
        f == DigitRun(s, i + m + n + d)
    IN  m + n + d + f

\* NumberMatch changed to split a 0 or 1 that a digit follows off as a flag
\* of its own
NumberMatchFlag(s, i) ==
    LET m == IF s[i] = "-" THEN 1 ELSE 0
        n == DigitRun(s, i + m)
        d == IF i + m + n <= Len(s) /\ s[i + m + n] = "." THEN 1 ELSE 0
        f == DigitRun(s, i + m + n + d)
    IN  IF n = 0 THEN 0
        ELSE IF m = 0 /\ n > 1 /\ s[i] \in {"0", "1"} THEN 1
        ELSE m + n + d + f

\* the length of the match of -?\d+\.?\d* at index i of s, 0 if there is
\* none: every quantifier is greedy and what follows it may match the empty
\* string, so the match is the longest one; a minus sign with no digit after
\* it matches nothing
NumberMatch(s, i) ==
    LET m == IF s[i] = "-" THEN 1 ELSE 0
        n == DigitRun(s, i + m)
        d == IF i + m + n <= Len(s) /\ s[i + m + n] = "." THEN 1 ELSE 0
        f == DigitRun(s, i + m + n + d)
    IN  IF n = 0 THEN 0 ELSE m + n + d + f

\* re.findall(r'[MmLlHhVvCcSsQqTtAaZz]|-?\d+\.?\d*', s), from index i on: the
\* leftmost match, the letter alternative first, then the scan goes on after
\* the match; a character no match starts at is passed over
RECURSIVE findall(_, _)
findall(s, i) ==
    IF i > Len(s) THEN <<>>
    ELSE IF s[i] \in Letters THEN << <<s[i]>> >> \o findall(s, i + 1)
    ELSE LET n == NumberMatch(s, i)
         IN  IF n > 0 THEN << SubSeq(s, i, i + n - 1) >> \o findall(s, i + n)
             ELSE findall(s, i + 1)

\* tok with a leading minus sign removed
Unsigned(tok) == IF tok # <<>> /\ tok[1] = "-" THEN Tail(tok) ELSE tok

\* the index of the decimal point of an unsigned literal, Len + 1 if none
DotAt(u) ==
    IF \E i \in 1..Len(u) : u[i] = "."
    THEN CHOOSE i \in 1..Len(u) : u[i] = "." /\ \A j \in 1..(i - 1) : u[j] # "."
    ELSE Len(u) + 1

\* float(tok) succeeds: of the tokens the regular expression yields, exactly
\* those of the form -?digits[.digits*]
FloatOk(tok) ==
    LET u == Unsigned(tok)
        d == DotAt(u)
    IN  /\ d >= 2
        /\ \A i \in 1..Len(u) : i # d => u[i] \in Digits

\* int(tok) succeeds: -?digits, no decimal point
IntOk(tok) ==
    LET u == Unsigned(tok)
    IN  /\ u # <<>>
        /\ \A i \in 1..Len(u) : u[i] \in Digits

RECURSIVE IntPart(_, _)
IntPart(u, n) ==
    IF n = 0 THEN 0 ELSE 10 * IntPart(u, n - 1) + DigitVal[u[n]]

RECURSIVE Pow10(_)
Pow10(k) == IF k = 0 THEN 1 ELSE 10 * Pow10(k - 1)

RECURSIVE FracPart(_, _, _)
FracPart(u, d, i) ==
    IF i > Len(u) THEN 0
    ELSE (DigitVal[u[i]] * Scale) \div Pow10(i - d) + FracPart(u, d, i + 1)

\* the value of float(tok), and of int(tok) where that succeeds
Float(tok) ==
    LET u == Unsigned(tok)
        d == DotAt(u)
        v == IntPart(u, d - 1) * Scale + FracPart(u, d, d + 1)
    IN  IF tok[1] = "-" THEN 0 - v ELSE v

Converts(conv, tok) == IF conv = "int" THEN IntOk(tok) ELSE FloatOk(tok)

\* cmd in "Mm": Python's substring test of a str in a str
InStr(tok, s) ==
    \E i \in 1..(Len(s) + 1) :
        /\ i + Len(tok) - 1 <= Len(s)
        /\ SubSeq(s, i, i + Len(tok) - 1) = tok

\* PopArgs changed to supply 0 for each number missing at the end of the list
\* instead of raising IndexError
RECURSIVE PopArgsGuessing(_, _, _)
PopArgsGuessing(cmds, convs, acc) ==
    IF convs = <<>> THEN [exc |-> "", vals |-> acc, rest |-> cmds]
    ELSE IF cmds = <<>> THEN PopArgsGuessing(cmds, Tail(convs), Append(acc, 0))
    ELSE IF ~Converts(Head(convs), Head(cmds))
         THEN [exc |-> "ValueError", vals |-> acc, rest |-> Tail(cmds)]
    ELSE PopArgsGuessing(Tail(cmds), Tail(convs), Append(acc, Float(Head(cmds))))

\* conv(self.commands.pop(0)), one conversion after the other, left to right:
\* pop(0) of an empty list raises IndexError, a failed conversion raises
\* ValueError after its token was popped.
RECURSIVE PopArgs(_, _, _)
PopArgs(cmds, convs, acc) ==
    IF convs = <<>> THEN [exc |-> "", vals |-> acc, rest |-> cmds]
    ELSE IF cmds = <<>> THEN [exc |-> "IndexError", vals |-> acc, rest |-> cmds]
    ELSE IF ~Converts(Head(convs), Head(cmds))
         THEN [exc |-> "ValueError", vals |-> acc, rest |-> Tail(cmds)]
    ELSE PopArgs(Tail(cmds), Tail(convs), Append(acc, Float(Head(cmds))))

Floats(n) == [i \in 1..n |-> "float"]


-----------------------------------------------------------------------------
(* Curve sampling                                                          *)

\* one coordinate of the cubic Bezier sample at t = i / NumPoints
CubicAt(i, p0, p1, p2, p3) ==
    LET u == NumPoints - i
    IN  (u * u * u * p0 + 3 * u * u * i * p1 + 3 * u * i * i * p2 + i * i * i * p3)
          \div (NumPoints * NumPoints * NumPoints)

\* one coordinate of the quadratic Bezier sample at t = i / NumPoints
QuadraticAt(i, p0, p1, p2) ==
    LET u == NumPoints - i
    IN  (u * u * p0 + 2 * u * i * p1 + i * i * p2) \div (NumPoints * NumPoints)

\* control_points = <<x1, y1, x2, y2, x3, y3>>
generate_cubic_bezier_points(start_point, control_points) ==
    [k \in 1..(NumPoints + 1) |->
        << CubicAt(k - 1, start_point[1], control_points[1], control_points[3],
                   control_points[5]),
           CubicAt(k - 1, start_point[2], control_points[2], control_points[4],
                   control_points[6]) >>]

\* generate_quadratic_bezier_points changed to sample range(10): no sample at
\* t = 1
generate_quadratic_bezier_points_open(start_point, control_points) ==
    [k \in 1..NumPoints |->
        << QuadraticAt(k - 1, start_point[1], control_points[1], control_points[3]),
           QuadraticAt(k - 1, start_point[2], control_points[2], control_points[4]) >>]

\* control_points = <<x1, y1, x2, y2>>
generate_quadratic_bezier_points(start_point, control_points) ==
    [k \in 1..(NumPoints + 1) |->
        << QuadraticAt(k - 1, start_point[1], control_points[1], control_points[3]),
           QuadraticAt(k - 1, start_point[2], control_points[2], control_points[4]) >>]

\* Angles are whole degrees.  math.cos at the multiples of 18 degrees between
\* 0 and 90, in 1/TrigScale, rounded to the nearest
TrigScale == 10000
CosTable == <<10000, 9511, 8090, 5878, 3090, 0>>

\* math.cos and math.sin of an angle that is a multiple of 18 degrees
cos(deg) ==
    LET k == (deg \div 18) % 20
    IN  CASE k <= 5  -> CosTable[k + 1]
          [] k <= 10 -> 0 - CosTable[11 - k]
          [] k <= 15 -> 0 - CosTable[k - 9]
          [] OTHER   -> CosTable[21 - k]

sin(deg) == cos(deg - 90)

\* atan2 changed to take its arguments as (x, y)
atan2_swapped(y, x) ==
    IF x = 0 THEN (IF y > 0 THEN 0 ELSE 180)
    ELSE IF x > 0 THEN 90 ELSE -90

\* math.atan2(y, x) of a direction on an axis, which only the signs of y and
\* x decide; on the negative x axis the floating point result is pi or -pi by
\* the sign of the zero y, here 180
atan2(y, x) ==
    IF y = 0 THEN (IF x > 0 THEN 0 ELSE 180)
    ELSE IF y > 0 THEN 90 ELSE -90

\* r * w / TrigScale, rounded to the nearest
Scaled(r, w) ==
    LET p == r * w
    IN  IF p >= 0 THEN (2 * p + TrigScale) \div (2 * TrigScale)
        ELSE 0 - ((2 * (0 - p) + TrigScale) \div (2 * TrigScale))

\* The radicand is computed in units of 1/20: the numbers are multiples of
\* 1/10 and the half chord of 1/20.  Up to ArcLimit of these units the
\* products of four factors are within TLC's integers.
ArcUnit == Scale \div 20
ArcLimit == 200

Abs(v) == IF v < 0 THEN 0 - v ELSE v

Sign(v) == IF v < 0 THEN -1 ELSE IF v > 0 THEN 1 ELSE 0

\* radicand = max(0, int((rx_sq * ry_sq - rx_sq * y1p_sq - ry_sq * x1p_sq) /
\*                       (rx_sq * y1p_sq + ry_sq * x1p_sq)))
\* for a half chord that is not (0, 0): int() truncates towards 0, and a
\* negative quotient gives 0 either way
generate_arc_points_radicand(rx, ry, x1p, y1p) ==
    LET a == rx \div ArcUnit
        b == ry \div ArcUnit
        x == x1p \div ArcUnit
        y == y1p \div ArcUnit
        n == a * a * b * b - a * a * y * y - b * b * x * x
        d == a * a * y * y + b * b * x * x
    IN  IF n <= 0 THEN 0 ELSE n \div d

\* the arcs whose samples the model evaluates: no rotation (cos(x_rot) = 1,
\* sin(x_rot) = 0, so (x1p, y1p) = (dx, dy)), a chord along an axis, a
\* radicand of 0, and, since the angles of a negative x axis depend on the
\* sign of a floating point zero unless delta_theta is reduced modulo 2 pi,
\* sweep non-zero or a vertical chord
Evaluated(rx, ry, x_rot, sweep, x1p, y1p) ==
    /\ x_rot = 0
    /\ x1p = 0 \/ y1p = 0
    /\ \A v \in {rx, ry, x1p, y1p} : v % ArcUnit = 0 /\ Abs(v) <= ArcLimit * ArcUnit
    /\ generate_arc_points_radicand(rx, ry, x1p, y1p) = 0
    /\ sweep # 0 \/ x1p = 0

\* generate_arc_points divides by rx^2 y1p^2 + ry^2 x1p^2, by ry and by rx.
\* (x1p, y1p) is the half chord rotated by x_rot, so it is (0, 0) exactly when
\* the start and end points coincide: the call raises ZeroDivisionError when
\* rx = 0, ry = 0 or start = end, and otherwise returns NumPoints + 1 samples.
\* With a radicand of 0, c = cxp = cyp = 0 and the centre is the middle of
\* the chord.  A sample the model does not evaluate is kept as a term.
generate_arc_points(start_point, rx, ry, x_rot, large_arc, sweep, end_point) ==
    LET x1p == (start_point[1] - end_point[1]) \div 2
        y1p == (start_point[2] - end_point[2]) \div 2
    IN  IF rx = 0 \/ ry = 0 \/ start_point = end_point
        THEN [exc |-> "ZeroDivisionError", pts |-> <<>>]
        ELSE IF Evaluated(rx, ry, x_rot, sweep, x1p, y1p)
        THEN LET cx == (start_point[1] + end_point[1]) \div 2
                 cy == (start_point[2] + end_point[2]) \div 2
                 theta1 == atan2(Sign(y1p) * Sign(ry), Sign(x1p) * Sign(rx))
                 theta2 == atan2((0 - Sign(y1p)) * Sign(ry),
                                 (0 - Sign(x1p)) * Sign(rx))
                 delta_theta == IF sweep = 0 THEN theta2 - theta1 - 360
                                ELSE (theta2 - theta1 + 360) % 360
             IN  [exc |-> "",
                  pts |-> [k \in 1..(NumPoints + 1) |->
                             LET theta == theta1 + (k - 1) * (delta_theta \div NumPoints)
                             IN  << cx + Scaled(rx, cos(theta)),
                                    cy + Scaled(ry, sin(theta)) >>]]
        ELSE [exc |-> "",
              pts |-> [k \in 1..(NumPoints + 1) |->
                         << k - 1, rx, ry, x_rot, large_arc, sweep,
                            start_point[1], start_point[2],
                            end_point[1], end_point[2] >>]]

\* Offset changed to add the cursor's x to every value
OffsetByX(relative, cur, vals) ==
    IF relative
    THEN [i \in 1..Len(vals) |-> vals[i] + cur[1]]
    ELSE vals

\* v + self.current_position[i % 2] for i, v in enumerate(vals) when relative
Offset(relative, cur, vals) ==
    IF relative
    THEN [i \in 1..Len(vals) |-> vals[i] + cur[2 - (i % 2)]]
    ELSE vals

\* self.last_command in "CcSs" (in "QqTt"), for a last_command that is a str;
\* for None the test raises TypeError, which the handlers' actions model
Reflects(last, family) == InStr(last, family)

\* smooth_control_point changed to reuse the previous control point as it is
smooth_control_point_unreflected(last, family, cur, cp) ==
    IF ~Reflects(last, family) THEN cur ELSE cp

\* smooth_control_point changed to reflect whatever control point is stored,
\* whichever command came last
smooth_control_point_stale(last, family, cur, cp) ==
    IF cp = None THEN cur
    ELSE << 2 * cur[1] - cp[1], 2 * cur[2] - cp[2] >>

\* the control point S/s and T/t store before popping their numbers: the
\* cursor, or the reflection of control_point through the cursor
smooth_control_point(last, family, cur, cp) ==
    IF ~Reflects(last, family) THEN cur
    ELSE << 2 * cur[1] - cp[1], 2 * cur[2] - cp[2] >>

-----------------------------------------------------------------------------
(* parse(): one action per branch of the dispatch, each one iteration of   *)
(* the while loop: cmd = self.commands.pop(0), the handler, and            *)
(* self.last_command = cmd.  An exception ends parse() inside the handler, *)
(* with the tokens popped so far gone and last_command not yet assigned.   *)

Str_Mm == <<"M", "m">>
Str_Ll == <<"L", "l">>
Str_Hh == <<"H", "h">>
Str_Vv == <<"V", "v">>
Str_Cc == <<"C", "c">>
Str_Ss == <<"S", "s">>
Str_Qq == <<"Q", "q">>
Str_Tt == <<"T", "t">>
Str_Aa == <<"A", "a">>
Str_Zz == <<"Z", "z">>
Str_CcSs == <<"C", "c", "S", "s">>
Str_QqTt == <<"Q", "q", "T", "t">>

\* the while condition holds and cmd is popped
Looping == pc = "loop" /\ commands # <<>>

\* an exception leaves parse(): cp is self.control_point at that moment
Raise(e, rest, cp) ==
    /\ pc' = "raised"
    /\ exc' = e
    /\ commands' = rest
    /\ control_point' = cp
    /\ UNCHANGED <<current_position, points, last_command, path, path_data, other>>

\* the handler returned: parse() assigns last_command and loops
Done(cmd, rest, cur, cp, pts) ==
    /\ commands' = rest
    /\ current_position' = cur
    /\ control_point' = cp
    /\ points' = pts
    /\ last_command' = cmd
    /\ UNCHANGED <<pc, exc, path, path_data, other>>

\* [cur[0] + x, cur[1] + y] if cmd is the relative letter else [x, y]
move_position(relative, cur, x, y) ==
    IF relative THEN << cur[1] + x, cur[2] + y >> ELSE << x, y >>

_handle_move_to ==
    /\ Looping
    /\ LET cmd == Head(commands)
           r == PopArgs(Tail(commands), Floats(2), <<>>)
       IN  /\ InStr(cmd, Str_Mm)
           /\ IF r.exc # "" THEN Raise(r.exc, r.rest, control_point)
              ELSE LET cur == move_position(cmd = <<"m">>, current_position,
                                            r.vals[1], r.vals[2])
                   IN  Done(cmd, r.rest, cur, control_point, Append(points, cur))

_handle_line_to ==
    /\ Looping
    /\ LET cmd == Head(commands)
           r == PopArgs(Tail(commands), Floats(2), <<>>)
       IN  /\ InStr(cmd, Str_Ll)
           /\ IF r.exc # "" THEN Raise(r.exc, r.rest, control_point)
              ELSE LET cur == move_position(cmd = <<"l">>, current_position,
                                            r.vals[1], r.vals[2])
                   IN  Done(cmd, r.rest, cur, control_point, Append(points, cur))

\* horizontal_position changed to treat h as H
horizontal_position_absolute(cmd, cur, x) == << x, cur[2] >>

\* self.current_position[0] = self.current_position[0] + x if cmd == "h" else x
\* (the list is updated in place; no other field refers to it then: points
\* holds tuples, and control_point is the same list only inside S/s and T/t,
\* which bind current_position to a new list before they return)
horizontal_position(cmd, cur, x) ==
    << IF cmd = <<"h">> THEN cur[1] + x ELSE x, cur[2] >>

_handle_horizontal_line_to ==
    /\ Looping
    /\ LET cmd == Head(commands)
           r == PopArgs(Tail(commands), Floats(1), <<>>)
       IN  /\ InStr(cmd, Str_Hh)
           /\ IF r.exc # "" THEN Raise(r.exc, r.rest, control_point)
              ELSE LET cur == horizontal_position(cmd, current_position, r.vals[1])
                   IN  Done(cmd, r.rest, cur, control_point, Append(points, cur))

\* self.current_position[1] = self.current_position[1] + y if cmd == "v" else y
vertical_position(cmd, cur, y) ==
    << cur[1], IF cmd = <<"v">> THEN cur[2] + y ELSE y >>

_handle_vertical_line_to ==
    /\ Looping
    /\ LET cmd == Head(commands)
           r == PopArgs(Tail(commands), Floats(1), <<>>)
       IN  /\ InStr(cmd, Str_Vv)
           /\ IF r.exc # "" THEN Raise(r.exc, r.rest, control_point)
              ELSE LET cur == vertical_position(cmd, current_position, r.vals[1])
                   IN  Done(cmd, r.rest, cur, control_point, Append(points, cur))

\* the body of _handle_cubic_bezier after its six pops: a = <<x1,y1,x2,y2,x,y>>
cubic_bezier(cmd, cur, a) ==
    LET v == Offset(cmd = <<"c">>, cur, a)
    IN  [pts |-> generate_cubic_bezier_points(cur, v),
         cur |-> << v[5], v[6] >>,
         cp  |-> << v[3], v[4] >>]

_handle_cubic_bezier ==
    /\ Looping
    /\ LET cmd == Head(commands)
           r == PopArgs(Tail(commands), Floats(6), <<>>)
       IN  /\ InStr(cmd, Str_Cc)
           /\ IF r.exc # "" THEN Raise(r.exc, r.rest, control_point)
              ELSE LET b == cubic_bezier(cmd, current_position, r.vals)
                   IN  Done(cmd, r.rest, b.cur, b.cp, points \o b.pts)

\* the body of _handle_smooth_cubic_bezier after its four pops, c1 the control
\* point lines 121-124 stored: a = <<x2, y2, x, y>>
smooth_cubic_bezier(cmd, cur, c1, a) ==
    LET v == Offset(cmd = <<"s">>, cur, a)
    IN  [pts |-> generate_cubic_bezier_points(cur, c1 \o v),
         cur |-> << v[3], v[4] >>,
         cp  |-> << v[1], v[2] >>]

_handle_smooth_cubic_bezier ==
    /\ Looping
    /\ LET cmd == Head(commands)
       IN  /\ InStr(cmd, Str_Ss)
           /\ IF last_command = None
              THEN Raise("TypeError", Tail(commands), control_point)
              ELSE LET c1 == smooth_control_point(last_command, Str_CcSs,
                                                  current_position, control_point)
                       r == PopArgs(Tail(commands), Floats(4), <<>>)
                   IN  IF r.exc # "" THEN Raise(r.exc, r.rest, c1)
                       ELSE LET b == smooth_cubic_bezier(cmd, current_position,
                                                         c1, r.vals)
                            IN  Done(cmd, r.rest, b.cur, b.cp, points \o b.pts)

\* quadratic_bezier changed to store the endpoint as control_point
quadratic_bezier_endpoint(cmd, cur, a) ==
    LET v == Offset(cmd = <<"q">>, cur, a)
    IN  [pts |-> generate_quadratic_bezier_points(cur, v),
         cur |-> << v[3], v[4] >>,
         cp  |-> << v[3], v[4] >>]

\* the body of _handle_quadratic_bezier after its four pops: a = <<x1, y1, x, y>>
quadratic_bezier(cmd, cur, a) ==
    LET v == Offset(cmd = <<"q">>, cur, a)
    IN  [pts |-> generate_quadratic_bezier_points(cur, v),
         cur |-> << v[3], v[4] >>,
         cp  |-> << v[1], v[2] >>]

_handle_quadratic_bezier ==
    /\ Looping
    /\ LET cmd == Head(commands)
           r == PopArgs(Tail(commands), Floats(4), <<>>)
       IN  /\ InStr(cmd, Str_Qq)
           /\ IF r.exc # "" THEN Raise(r.exc, r.rest, control_point)
              ELSE LET b == quadratic_bezier(cmd, current_position, r.vals)
                   IN  Done(cmd, r.rest, b.cur, b.cp, points \o b.pts)

\* smooth_quadratic_bezier changed to store the cursor it started from as
\* control_point
smooth_quadratic_bezier_cursor(cmd, cur, c1, a) ==
    LET v == Offset(cmd = <<"t">>, cur, a)
    IN  [pts |-> generate_quadratic_bezier_points(cur, c1 \o v),
         cur |-> << v[1], v[2] >>,
         cp  |-> cur]

\* the body of _handle_smooth_quadratic_bezier after its two pops, c1 the
\* control point lines 153-156 stored (the handler does not assign it again):
\* a = <<x, y>>
smooth_quadratic_bezier(cmd, cur, c1, a) ==
    LET v == Offset(cmd = <<"t">>, cur, a)
    IN  [pts |-> generate_quadratic_bezier_points(cur, c1 \o v),
         cur |-> << v[1], v[2] >>,
         cp  |-> c1]

_handle_smooth_quadratic_bezier ==
    /\ Looping
    /\ LET cmd == Head(commands)
       IN  /\ InStr(cmd, Str_Tt)
           /\ IF last_command = None
              THEN Raise("TypeError", Tail(commands), control_point)
              ELSE LET c1 == smooth_control_point(last_command, Str_QqTt,
                                                  current_position, control_point)
                       r == PopArgs(Tail(commands), Floats(2), <<>>)
                   IN  IF r.exc # "" THEN Raise(r.exc, r.rest, c1)
                       ELSE LET b == smooth_quadratic_bezier(cmd, current_position,
                                                             c1, r.vals)
                            IN  Done(cmd, r.rest, b.cur, b.cp, points \o b.pts)

\* float(...) if i < 5 else int(...) for i in range(7)
ArcConversions == <<"float", "float", "float", "float", "float", "int", "int">>

_handle_arc ==
    /\ Looping
    /\ LET cmd == Head(commands)
           r == PopArgs(Tail(commands), ArcConversions, <<>>)
       IN  /\ InStr(cmd, Str_Aa)
           /\ IF r.exc # "" THEN Raise(r.exc, r.rest, control_point)
              ELSE LET a == r.vals
                       end == move_position(cmd = <<"a">>, current_position,
                                            a[6], a[7])
                       g == generate_arc_points(current_position, a[1], a[2], a[3],
                                                a[4], a[5], end)
                   IN  IF g.exc # "" THEN Raise(g.exc, r.rest, control_point)
                       ELSE Done(cmd, r.rest, end, control_point, points \o g.pts)

\* close_path changed to repeat the last point instead of the first
close_path_last(pts) ==
    IF pts = <<>> THEN [exc |-> "IndexError", pts |-> pts]
    ELSE [exc |-> "", pts |-> Append(pts, pts[Len(pts)])]

\* close_path changed to move the last point onto the first instead of
\* appending
close_path_snapping(pts) ==
    IF pts = <<>> THEN [exc |-> "IndexError", pts |-> pts]
    ELSE [exc |-> "", pts |-> [pts EXCEPT ![Len(pts)] = pts[1]]]

\* close_path changed to do nothing when there is no point yet
close_path_guarded(pts) ==
    IF pts = <<>> THEN [exc |-> "", pts |-> pts]
    ELSE [exc |-> "", pts |-> Append(pts, pts[1])]

\* the body of _handle_close_path: self.points.append(self.points[0]), where
\* self.points[0] of an empty list raises IndexError
close_path(pts) ==
    IF pts = <<>> THEN [exc |-> "IndexError", pts |-> pts]
    ELSE [exc |-> "", pts |-> Append(pts, pts[1])]

_handle_close_path ==
    /\ Looping
    /\ LET cmd == Head(commands)
           z == close_path(points)
       IN  /\ InStr(cmd, Str_Zz)
           /\ IF z.exc # "" THEN Raise(z.exc, Tail(commands), control_point)
              ELSE Done(cmd, Tail(commands), current_position, control_point, z.pts)

\* no branch of the if/elif chain matches: cmd is a numeric token
NoBranch(cmd) ==
    \A s \in {Str_Mm, Str_Ll, Str_Hh, Str_Vv, Str_Cc, Str_Ss, Str_Qq, Str_Tt,
              Str_Aa, Str_Zz} : ~InStr(cmd, s)

\* skip_token changed to repeat a command for a number that follows its
\* argument group: the number is taken as the x of a further line
skip_token_repeating ==
    /\ Looping
    /\ NoBranch(Head(commands))
    /\ LET cur == << Float(Head(commands)), current_position[2] >>
       IN  Done(Head(commands), Tail(commands), cur, control_point,
                Append(points, cur))

\* skip_token changed to put the number back at the end of the token list
skip_token_requeueing ==
    /\ Looping
    /\ NoBranch(Head(commands))
    /\ Done(Head(commands), Append(Tail(commands), Head(commands)),
            current_position, control_point, points)

\* a numeric token is met in the loop: only self.last_command = cmd runs
skip_token ==
    /\ Looping
    /\ NoBranch(Head(commands))
    /\ Done(Head(commands), Tail(commands), current_position, control_point, points)

\* the while condition fails: return self.points
return_points ==
    /\ pc = "loop"
    /\ commands = <<>>
    /\ pc' = "returned"
    /\ UNCHANGED <<commands, current_position, points, last_command,
                   control_point, exc, path, path_data, other>>

Next ==
    \/ _handle_move_to
    \/ _handle_line_to
    \/ _handle_horizontal_line_to
    \/ _handle_vertical_line_to
    \/ _handle_cubic_bezier
    \/ _handle_smooth_cubic_bezier
    \/ _handle_quadratic_bezier
    \/ _handle_smooth_quadratic_bezier
    \/ _handle_arc
    \/ _handle_close_path
    \/ skip_token
    \/ return_points

-----------------------------------------------------------------------------
(* The paths parse() is run on                                             *)

\* the most commands (or stray numbers) in a path
MaxCmds == 3

\* the numeric literals of the paths: the k-th number of a path is
\* Numbers[k], cyclically
Numbers == << <<"1", "0">>, <<"5">>, <<"0">>, <<"-", "3">>, <<"2", ".", "5">>,
              <<"1">>, <<"7">> >>

\* the number of numeric tokens each command pops
Arity(l) ==
    CASE l \in {"M", "m", "L", "l", "T", "t"} -> 2
      [] l \in {"H", "h", "V", "v"} -> 1
      [] l \in {"Q", "q", "S", "s"} -> 4
      [] l \in {"C", "c"} -> 6
      [] l \in {"A", "a"} -> 7
      [] l \in {"Z", "z"} -> 0

\* an item of a path: a command letter with its numbers, or "#", a number
\* no command consumes
Items == Letters \cup {"#"}

NumbersFrom(k, n) == [i \in 1..n |-> Numbers[((k + i - 2) % Len(Numbers)) + 1]]

\* the tokens of the items shape[i..], the next number being the k-th; item
\* cut (0 for none) is written with short numbers fewer than its arity
RECURSIVE Tokens(_, _, _, _, _)
Tokens(shape, i, k, cut, short) ==
    IF i > Len(shape) THEN <<>>
    ELSE LET l == shape[i]
             n == IF l = "#" THEN 1
                  ELSE IF i = cut THEN Arity(l) - short ELSE Arity(l)
             head == IF l = "#" THEN <<>> ELSE << <<l>> >>
         IN  head \o NumbersFrom(k, n) \o Tokens(shape, i + 1, k + n, cut, short)

\* the tokens written one after the other, a space after each
RECURSIVE Join(_)
Join(toks) == IF toks = <<>> THEN <<>> ELSE Head(toks) \o <<" ">> \o Join(Tail(toks))

\* the items a path of more than two items starts with
Lead == {"M", "l", "h", "C", "q", "A", "#"}

\* the shapes of m items: any two items, after items of Lead
Shapes(m) == { sh \in [1..m -> Items] : \A i \in 1..(m - 2) : sh[i] \in Lead }

\* the numbers of the arcs drawn from (0, 0) along an axis, without rotation
ArcRadii == { <<"5">>, <<"6">>, <<"2", ".", "5">> }
ArcFlags == { <<"0">>, <<"1">> }
ArcEnds == { << <<"1", "0">>, <<"0">> >>, << <<"-", "1", "0">>, <<"0">> >>,
             << <<"0">>, <<"1", "0">> >>, << <<"0">>, <<"-", "1", "0">> >> }

\* every path string of at most MaxCmds items with all arguments present,
\* every one of fewer items in which one command lacks some of its arguments,
\* and every arc "A rx ry 0 large_arc sweep x y" of the numbers above
IsPath(p) ==
    \/ \E m \in 0..MaxCmds : \E sh \in Shapes(m) :
          p = Join(Tokens(sh, 1, 1, 0, 0))
    \/ \E m \in 1..(MaxCmds - 1) : \E sh \in Shapes(m) :
          \E c \in 1..m : \E d \in 1..7 :
             /\ sh[c] \in Letters
             /\ d <= Arity(sh[c])
             /\ p = Join(Tokens(sh, 1, 1, c, d))
    \/ \E rx \in ArcRadii : \E ry \in ArcRadii : \E la \in ArcFlags :
          \E sw \in ArcFlags : \E e \in ArcEnds :
             p = Join(<< <<"A">>, rx, ry, <<"0">>, la, sw, e[1], e[2] >>)

\* __init__(path_data)
__init__ ==
    /\ commands = findall(path_data, 1)
    /\ path = commands
    /\ current_position = <<0, 0>>
    /\ points = <<>>
    /\ last_command = None
    /\ control_point = None
    /\ pc = "loop"
    /\ exc = ""

Init == IsPath(path_data) /\ __init__ /\ other = None

Spec == Init /\ [][Next]_vars

-----------------------------------------------------------------------------
(* Two instances.  The variables hold the fields of one PathParser, other  *)
(* the fields of a second one; parse_step is one iteration of parse() on   *)
(* an instance given as the record of its fields, the code of the actions  *)
(* above in one operator.  Each instance is stepped by the thread that     *)
(* called its parse(), the two in any order.                               *)

\* PathParser(path_data): the fields __init__ assigns, each a new object
PathParser(d) ==
    [commands |-> findall(d, 1), current_position |-> <<0, 0>>, points |-> <<>>,
     last_command |-> None, control_point |-> None, pc |-> "loop", exc |-> "",
     path |-> findall(d, 1), path_data |-> d]

\* the instance the variables hold
Self ==
    [commands |-> commands, current_position |-> current_position,
     points |-> points, last_command |-> last_command,
     control_point |-> control_point, pc |-> pc, exc |-> exc,
     path |-> path, path_data |-> path_data]

\* an exception leaves parse() of st
Raised(st, e, rest, cp) ==
    [st EXCEPT !.pc = "raised", !.exc = e, !.commands = rest, !.control_point = cp]

\* a handler of st returned and parse() assigned last_command
Handled(st, cmd, rest, cur, cp, pts) ==
    [st EXCEPT !.commands = rest, !.current_position = cur, !.control_point = cp,
               !.points = pts, !.last_command = cmd]

\* the while loop of parse() on st: one iteration, or the return
parse_step(st) ==
    IF st.pc # "loop" THEN st
    ELSE IF st.commands = <<>> THEN [st EXCEPT !.pc = "returned"]
    ELSE
    LET cmd  == Head(st.commands)
        rest == Tail(st.commands)
        cur  == st.current_position
        cp   == st.control_point
        pts  == st.points
        n    == IF IsLetter(cmd) THEN Arity(cmd[1]) ELSE 0
        r    == PopArgs(rest, IF InStr(cmd, Str_Aa) THEN ArcConversions
                              ELSE Floats(n), <<>>)
    IN  CASE InStr(cmd, Str_Mm) \/ InStr(cmd, Str_Ll) ->
               IF r.exc # "" THEN Raised(st, r.exc, r.rest, cp)
               ELSE LET new == move_position(cmd \in {<<"m">>, <<"l">>}, cur,
                                             r.vals[1], r.vals[2])
                    IN  Handled(st, cmd, r.rest, new, cp, Append(pts, new))
          [] InStr(cmd, Str_Hh) ->
               IF r.exc # "" THEN Raised(st, r.exc, r.rest, cp)
               ELSE LET new == horizontal_position(cmd, cur, r.vals[1])
                    IN  Handled(st, cmd, r.rest, new, cp, Append(pts, new))
          [] InStr(cmd, Str_Vv) ->
               IF r.exc # "" THEN Raised(st, r.exc, r.rest, cp)
               ELSE LET new == vertical_position(cmd, cur, r.vals[1])
                    IN  Handled(st, cmd, r.rest, new, cp, Append(pts, new))
          [] InStr(cmd, Str_Cc) ->
               IF r.exc # "" THEN Raised(st, r.exc, r.rest, cp)
               ELSE LET b == cubic_bezier(cmd, cur, r.vals)
                    IN  Handled(st, cmd, r.rest, b.cur, b.cp, pts \o b.pts)
          [] InStr(cmd, Str_Qq) ->
               IF r.exc # "" THEN Raised(st, r.exc, r.rest, cp)
               ELSE LET b == quadratic_bezier(cmd, cur, r.vals)
                    IN  Handled(st, cmd, r.rest, b.cur, b.cp, pts \o b.pts)
          [] InStr(cmd, Str_Ss) \/ InStr(cmd, Str_Tt) ->
               IF st.last_command = None THEN Raised(st, "TypeError", rest, cp)
               ELSE LET cubic == InStr(cmd, Str_Ss)
                        c1 == smooth_control_point(st.last_command,
                                  IF cubic THEN Str_CcSs ELSE Str_QqTt, cur, cp)
                    IN  IF r.exc # "" THEN Raised(st, r.exc, r.rest, c1)
                        ELSE LET b == IF cubic
                                      THEN smooth_cubic_bezier(cmd, cur, c1, r.vals)
                                      ELSE smooth_quadratic_bezier(cmd, cur, c1, r.vals)
                             IN  Handled(st, cmd, r.rest, b.cur, b.cp, pts \o b.pts)
          [] InStr(cmd, Str_Aa) ->
               IF r.exc # "" THEN Raised(st, r.exc, r.rest, cp)
               ELSE LET a == r.vals
                        end == move_position(cmd = <<"a">>, cur, a[6], a[7])
                        g == generate_arc_points(cur, a[1], a[2], a[3], a[4], a[5], end)
                    IN  IF g.exc # "" THEN Raised(st, g.exc, r.rest, cp)
                        ELSE Handled(st, cmd, r.rest, end, cp, pts \o g.pts)
          [] InStr(cmd, Str_Zz) ->
               LET z == close_path(pts)
               IN  IF z.exc # "" THEN Raised(st, z.exc, rest, cp)
                   ELSE Handled(st, cmd, rest, cur, cp, z.pts)
          [] OTHER -> Handled(st, cmd, rest, cur, cp, pts)

\* step_other changed as if points were one list both instances refer to (a
\* class attribute): the second instance appends to that list
step_other_shared_points ==
    /\ other.pc = "loop"
    /\ other' = parse_step([other EXCEPT !.points = points])
    /\ points' = other'.points
    /\ UNCHANGED <<commands, current_position, last_command, control_point,
                   pc, exc, path, path_data>>

\* the thread of the second instance runs one iteration of its parse()
step_other ==
    /\ other.pc = "loop"
    /\ other' = parse_step(other)
    /\ UNCHANGED <<commands, current_position, points, last_command,
                   control_point, pc, exc, path, path_data>>

\* the path strings of the second instance: "M10 5 l0 -3 Z", "q10 5 0 -3
\* t2.5 1 7", "h10 S5 0 -3 2.5 L1" and "10 a5 0 -3 2.5 1 7 10"
OtherPaths ==
    { Join(Tokens(<<"M", "l", "Z">>, 1, 1, 0, 0)),
      Join(Tokens(<<"q", "t", "#">>, 1, 1, 0, 0)),
      Join(Tokens(<<"h", "S", "L">>, 1, 1, 3, 1)),
      Join(Tokens(<<"#", "a", "#">>, 1, 1, 0, 0)) }

\* two instances, the first of a path of one or two items
InitTwo ==
    /\ \E m \in 1..2 : \E sh \in Shapes(m) : path_data = Join(Tokens(sh, 1, 1, 0, 0))
    /\ __init__
    /\ \E d \in OtherPaths : other = PathParser(d)

NextTwo == Next \/ step_other

SpecTwo == InitTwo /\ [][NextTwo]_vars

-----------------------------------------------------------------------------
(* The strings the tokenizer is run on: every string of at most MaxChars   *)
(* characters, each parsed as well                                         *)

MaxChars == 3

\* a letter of each handler, digits, the sign, the point, the separators and
\* a character the regular expression does not know
Chars == {"M", "l", "H", "v", "C", "s", "Q", "t", "A", "z",
          "0", "1", "-", ".", " ", ",", "x"}

InitLex ==
    /\ \E n \in 0..MaxChars : path_data \in [1..n -> Chars]
    /\ __init__
    /\ other = None

SpecLex == InitLex /\ [][Next]_vars

-----------------------------------------------------------------------------
(* Vocabulary of the properties                                            *)

\* the token at index i of p is a command letter with all its numbers after it
ArgsFollow(p, i) ==
    /\ i + Arity(p[i][1]) <= Len(p)
    /\ \A j \in (i + 1)..(i + Arity(p[i][1])) : FloatOk(p[j])

\* every command letter of p is followed by at least its arity of numbers
AllArgsFollow(p) == \A i \in 1..Len(p) : IsLetter(p[i]) => ArgsFollow(p, i)

\* the next loop iteration executes a command letter of the string s
Executes(s) == Looping /\ InStr(Head(commands), s)

\* ... and the letter has all its numbers
ExecutesFull(s) == Executes(s) /\ ArgsFollow(commands, 1)

Last(pts) == pts[Len(pts)]

\* the token at index i of path, as a string of one letter ("" past the end)
LetterAt(i) == IF i <= Len(path) /\ IsLetter(path[i]) THEN path[i][1] ELSE ""

-----------------------------------------------------------------------------
\* C1: in a path whose every command letter is followed by at least its arity
\* of numeric tokens, executing one command removes exactly 1 + arity tokens
\* from the front of the token list (M/L/T 2, H/V 1, Q/S 4, C 6, A 7, Z 0).
C1_PopsOnePlusArity ==
    [][ (AllArgsFollow(path) /\ Looping /\ IsLetter(Head(commands)))
          => commands' = SubSeq(commands, 2 + Arity(Head(commands)[1]),
                                Len(commands)) ]_vars

\* C2: a command letter followed by fewer numbers than its arity ends parse()
\* in an error, never in a return, and the step that meets it adds no point.
C2_TruncatedRaises ==
    [][ /\ (Looping /\ IsLetter(Head(commands)) /\ ~ArgsFollow(commands, 1))
           => (pc' = "raised" /\ points' = points)
        /\ (pc' = "returned" => AllArgsFollow(path)) ]_vars

\* "M10,5 L0" (the shape of "M0,0 L5"): L lacks its y, parse() raised and
\* points holds the one point of M
C2_Witness ==
    /\ Len(path) = 5
    /\ LetterAt(1) = "M"
    /\ LetterAt(4) = "L"
    /\ pc = "raised"
    /\ exc = "IndexError"
    /\ commands = <<>>
    /\ points = << <<Float(path[2]), Float(path[3])>> >>

-----------------------------------------------------------------------------
\* the absolute cursor after the commands of p from index i on, one per
\* command, starting from cur: uppercase replaces the coordinates given,
\* lowercase adds to them, H/h gives only x and V/v only y
RECURSIVE Cumulative(_, _, _)
Cumulative(p, i, cur) ==
    IF i > Len(p) THEN <<>>
    ELSE LET l == p[i][1]
             a == Float(p[i + 1])
             b == IF Arity(l) = 2 THEN Float(p[i + 2]) ELSE 0
             new == CASE l \in {"M", "L"} -> << a, b >>
                      [] l \in {"m", "l"} -> << cur[1] + a, cur[2] + b >>
                      [] l = "H" -> << a, cur[2] >>
                      [] l = "h" -> << cur[1] + a, cur[2] >>
                      [] l = "V" -> << cur[1], a >>
                      [] l = "v" -> << cur[1], cur[2] + a >>
         IN  << new >> \o Cumulative(p, i + 1 + Arity(l), new)

\* p[i..] is made only of M/m/L/l/H/h/V/v commands with all their numbers
RECURSIVE IsSimple(_, _)
IsSimple(p, i) ==
    \/ i > Len(p)
    \/ /\ IsLetter(p[i])
       /\ p[i][1] \in {"M", "m", "L", "l", "H", "h", "V", "v"}
       /\ ArgsFollow(p, i)
       /\ IsSimple(p, i + 1 + Arity(p[i][1]))

\* the tokens parse() has popped so far
Consumed == SubSeq(path, 1, Len(path) - Len(commands))

\* C3: on a path made only of M/m/L/l/H/h/V/v commands with full arguments
\* parse() never raises, points holds one point per command executed so far,
\* and the k-th point is the cumulative absolute cursor after the k-th command.
C3_SimplePathCursor ==
    IsSimple(path, 1) =>
        /\ pc # "raised"
        /\ Len(points) = Cardinality({ i \in 1..Len(Consumed) : IsLetter(Consumed[i]) })
        /\ points = Cumulative(Consumed, 1, <<0, 0>>)

\* "l10,5 h0 V-3" and the like: relative, horizontal and vertical mixed
C3_Witness ==
    /\ pc = "returned"
    /\ IsSimple(path, 1)
    /\ LetterAt(1) = "l"
    /\ LetterAt(4) = "h"
    /\ LetterAt(6) = "V"
    /\ Len(points) = 3

\* the letters C4 names: every command but A/a
C4_Letters == { <<l>> : l \in Letters \ {"A", "a"} }

\* C4: after every executed M, L, H, V, C, S, Q, T or Z that leaves points
\* non-empty, current_position equals the last element of points.
C4_CursorIsLastPoint ==
    (pc # "raised" /\ points # <<>> /\ last_command \in C4_Letters)
        => current_position = Last(points)

\* C5: an S/s or T/t command that is the first command of a path, with all
\* its numbers, raises no error and emits its 11 samples, computed with the
\* control point (0, 0).
C5_SmoothFirstCommand ==
    (LetterAt(1) \in {"S", "s", "T", "t"} /\ ArgsFollow(path, 1) /\ commands # path)
        => /\ Len(points) >= NumPoints + 1
           /\ SubSeq(points, 1, NumPoints + 1) =
                IF LetterAt(1) \in {"S", "s"}
                THEN generate_cubic_bezier_points(<<0, 0>>,
                        << 0, 0, Float(path[2]), Float(path[3]),
                           Float(path[4]), Float(path[5]) >>)
                ELSE generate_quadratic_bezier_points(<<0, 0>>,
                        << 0, 0, Float(path[2]), Float(path[3]) >>)

\* C6: Z/z executed when points is non-empty appends exactly one point, equal
\* to points[0], and changes no earlier element of points.
C6_CloseAppendsFirstPoint ==
    [][ (Executes(Str_Zz) /\ points # <<>>)
          => points' = Append(points, points[1]) ]_vars

\* "M10,5 M0,-3 Z": a second M started a new subpath, Z repeated the first
\* point of the whole path
C6_Witness ==
    /\ LetterAt(1) = "M"
    /\ LetterAt(4) = "M"
    /\ LetterAt(7) \in {"Z", "z"}
    /\ pc = "returned"
    /\ Len(points) = 3
    /\ points[2] # points[1]
    /\ points[3] = points[1]

\* C7: Z/z executed while points is empty makes parse() fail with an error
\* and leaves points empty.
C7_CloseOnEmptyRaises ==
    [][ (Executes(Str_Zz) /\ points = <<>>)
          => (pc' = "raised" /\ exc' # "" /\ points' = <<>>) ]_vars

\* "10 Z": a stray number, then Z with no point recorded
C7_Witness ==
    /\ Len(path) = 2
    /\ FloatOk(path[1])
    /\ LetterAt(2) \in {"Z", "z"}
    /\ pc = "raised"
    /\ commands = <<>>
    /\ points = <<>>

-----------------------------------------------------------------------------
\* the numbers n..m of the command at the head of commands, in absolute
\* coordinates: those of a lowercase letter are offsets from the cursor, odd
\* positions in x and even positions in y
AbsArgs(n, m) ==
    [i \in 1..(m - n + 1) |->
        Float(commands[n + i]) +
        IF Head(commands)[1] \in {"c", "s", "q", "t"}
        THEN current_position[2 - ((n + i - 1) % 2)] ELSE 0]

\* the reflection of control_point through the cursor
Reflection ==
    << 2 * current_position[1] - control_point[1],
       2 * current_position[2] - control_point[2] >>

\* C8: S/s executed right after C, c, S or s, with cursor (px,py) and
\* control_point (cx,cy), samples the cubic whose first control point is
\* (2px-cx, 2py-cy); afterwards control_point is the explicit second control
\* point in absolute coordinates and current_position is the endpoint.
C8_SmoothCubicReflects ==
    [][ (ExecutesFull(Str_Ss) /\ last_command \in {<<"C">>, <<"c">>, <<"S">>, <<"s">>})
          => /\ points' = points \o generate_cubic_bezier_points(
                                       current_position, Reflection \o AbsArgs(1, 4))
             /\ control_point' = AbsArgs(1, 2)
             /\ current_position' = AbsArgs(3, 4) ]_vars

\* "C... S... s...": a smooth cubic after a cubic and after a smooth cubic
C8_Witness ==
    /\ LetterAt(1) = "C"
    /\ LetterAt(8) = "S"
    /\ LetterAt(13) = "s"
    /\ pc = "returned"
    /\ Len(points) = 3 * (NumPoints + 1)
    /\ control_point # current_position

\* C9: S (T) right after a command that is not of its own curve family adds
\* the points, and reaches the current_position, of the explicit command
\* C px py x2 y2 x y (Q px py x y) executed in the same state.
C9_SmoothWithoutReflection ==
    [][ /\ (ExecutesFull(Str_Ss) /\ IsLetter(last_command)
              /\ ~InStr(last_command, Str_CcSs))
           => LET e == cubic_bezier(<<"C">>, current_position,
                                    current_position \o AbsArgs(1, 4))
              IN  points' = points \o e.pts /\ current_position' = e.cur
        /\ (ExecutesFull(Str_Tt) /\ IsLetter(last_command)
              /\ ~InStr(last_command, Str_QqTt))
           => LET e == quadratic_bezier(<<"Q">>, current_position,
                                        current_position \o AbsArgs(1, 2))
              IN  points' = points \o e.pts /\ current_position' = e.cur ]_vars

\* "q... S...": a smooth cubic after a curve of the other family, whose
\* control point is not the cursor
C9_Witness ==
    /\ LetterAt(1) = "q"
    /\ LetterAt(6) = "S"
    /\ pc = "returned"
    /\ Len(points) = 2 * (NumPoints + 1)
    /\ <<Float(path[2]), Float(path[3])>> # <<Float(path[4]), Float(path[5])>>

Str_CcSsQqTt == <<"C", "c", "S", "s", "Q", "q", "T", "t">>

\* C10: every C/c/S/s/Q/q/T/t command (given its numbers) appends exactly 11
\* points, the first equal to the cursor before the command and the last equal
\* to the declared absolute endpoint.
C10_ElevenSamples ==
    [][ ExecutesFull(Str_CcSsQqTt)
          => LET n == Arity(Head(commands)[1])
             IN  /\ Len(points') = Len(points) + NumPoints + 1
                 /\ SubSeq(points', 1, Len(points)) = points
                 /\ points'[Len(points) + 1] = current_position
                 /\ Last(points') = AbsArgs(n - 1, n) ]_vars

-----------------------------------------------------------------------------
\* the commands that append one point, and those that append eleven samples
PointLetters == {"M", "m", "L", "l", "H", "h", "V", "v", "Z", "z"}
CurveLetters == Letters \ PointLetters

\* the number of tokens of p that are a command letter of the set ls
CountLetters(p, ls) ==
    Cardinality({ i \in 1..Len(p) : IsLetter(p[i]) /\ p[i][1] \in ls })

\* C11: while parse() has not failed, and so when it returns, len(points) is
\* the number of M/L/H/V/Z commands executed plus 11 times the number of
\* C/S/Q/T/A commands executed; a token that is no command adds no point.
C11_PointCount ==
    pc # "raised" =>
        Len(points) = CountLetters(Consumed, PointLetters)
                      + (NumPoints + 1) * CountLetters(Consumed, CurveLetters)

\* "M10,5 0 A-3 2.5 1 7 10 5 0": a point, a stray number, an arc
C11_Witness ==
    /\ pc = "returned"
    /\ Len(path) = 12
    /\ LetterAt(1) = "M"
    /\ FloatOk(path[4])
    /\ LetterAt(5) = "A"
    /\ Len(points) = 1 + (NumPoints + 1)

-----------------------------------------------------------------------------
\* the endpoint the A/a at the head of commands declares, in absolute
\* coordinates
ArcEnd ==
    LET x == Float(commands[7])
        y == Float(commands[8])
    IN  IF Head(commands) = <<"a">>
        THEN << current_position[1] + x, current_position[2] + y >>
        ELSE << x, y >>

\* the seven numbers after the A/a at the head of commands pass the handler's
\* conversions
ArcArgsConvert == PopArgs(Tail(commands), ArcConversions, <<>>).exc = ""

\* C12: an A/a command whose seven numbers are all there (and pass the
\* conversions, C13 being about those that do not) never fails, whatever the
\* values: also with a zero-length chord or with rx or ry 0 the handler
\* completes, appends 11 points and sets current_position to the endpoint.
C12_ArcNeverFails ==
    [][ (ExecutesFull(Str_Aa) /\ ArcArgsConvert)
          => /\ pc' = "loop"
             /\ exc' = ""
             /\ Len(points') = Len(points) + NumPoints + 1
             /\ SubSeq(points', 1, Len(points)) = points
             /\ current_position' = ArcEnd ]_vars

\* C13: an A/a command accepts any numeric literal for each of its seven
\* arguments, a decimal endpoint included ("A 5 5 0 0 1 10.5 0"): no
\* conversion fails, and when the arc is drawn current_position is the
\* endpoint as written.
C13_ArcAcceptsDecimals ==
    [][ ExecutesFull(Str_Aa)
          => /\ exc' # "ValueError"
             /\ pc' = "loop" => current_position' = ArcEnd ]_vars

-----------------------------------------------------------------------------
\* the characters of the tokens, one token after the other
RECURSIVE Flatten(_)
Flatten(toks) == IF toks = <<>> THEN <<>> ELSE Head(toks) \o Flatten(Tail(toks))

\* a is a subsequence of s[i..]
RECURSIVE IsSubsequence(_, _, _)
IsSubsequence(a, s, i) ==
    \/ a = <<>>
    \/ /\ i <= Len(s)
       /\ \/ s[i] = Head(a) /\ IsSubsequence(Tail(a), s, i + 1)
          \/ IsSubsequence(a, s, i + 1)

\* the tokens occur in s[i..] as substrings, each one after the end of the
\* one before it
RECURSIVE InSourceOrder(_, _, _)
InSourceOrder(toks, s, i) ==
    \/ toks = <<>>
    \/ \E j \in i..Len(s) :
          /\ j + Len(Head(toks)) - 1 <= Len(s)
          /\ SubSeq(s, j, j + Len(Head(toks)) - 1) = Head(toks)
          /\ InSourceOrder(Tail(toks), s, j + Len(Head(toks)))

\* C14: tokenization is total and keeps the order: for every string the
\* token list exists, each token is one of the 20 command letters or a literal
\* -?digits[.digits], the tokens occur in the string in their order without
\* overlap, no token holds a space, a comma or an unrecognised character, and
\* the tokens written together are a subsequence of the string.
C14_TokensInOrder ==
    /\ \A i \in 1..Len(path) :
          /\ IsLetter(path[i]) \/ FloatOk(path[i])
          /\ \A j \in 1..Len(path[i]) : path[i][j] \in Letters \cup Digits \cup {"-", "."}
    /\ InSourceOrder(path, path_data, 1)
    /\ IsSubsequence(Flatten(path), path_data, 1)

\* "1.x": the literal ends in its point and the unknown character is dropped
C14_Witness ==
    /\ path_data = <<"1", ".", "x">>
    /\ path = << <<"1", ".">> >>
    /\ pc = "returned"

-----------------------------------------------------------------------------
\* C15: no implicit command repetition: a numeric token met in the loop,
\* that is one after the argument group of a command and before the next
\* letter, is dropped: no point is emitted, no error is raised, and
\* current_position, control_point and points stay as they are.
C15_NoImplicitRepetition ==
    [][ (Looping /\ FloatOk(Head(commands)))
          => /\ pc' = "loop"
             /\ exc' = ""
             /\ commands' = Tail(commands)
             /\ points' = points
             /\ current_position' = current_position
             /\ control_point' = control_point ]_vars

\* "l10 5 0 -3" (the shape of "L1 1 2 2"): one point, the second pair dropped
C15_Witness ==
    /\ Len(path) = 5
    /\ LetterAt(1) = "l"
    /\ FloatOk(path[4])
    /\ FloatOk(path[5])
    /\ pc = "returned"
    /\ points = << <<Float(path[2]), Float(path[3])>> >>
    /\ current_position = <<Float(path[2]), Float(path[3])>>

-----------------------------------------------------------------------------
\* the last command letter among the tokens toks, None if there is none
RECURSIVE LastLetter(_)
LastLetter(toks) ==
    IF toks = <<>> THEN None
    ELSE IF IsLetter(toks[Len(toks)]) THEN toks[Len(toks)]
    ELSE LastLetter(SubSeq(toks, 1, Len(toks) - 1))

\* C18: at every point of a parse that has not failed, last_command is None
\* or one of the 20 command codes, namely the letter of the command executed
\* last; a token that is no command letter never becomes last_command.
C18_LastCommandIsCommand ==
    pc # "raised" =>
        /\ last_command = None \/ IsLetter(last_command)
        /\ last_command = LastLetter(Consumed)

-----------------------------------------------------------------------------
\* the uppercase letter of a lowercase one
Upper == ("m" :> "M") @@ ("l" :> "L") @@ ("h" :> "H") @@ ("v" :> "V")
         @@ ("c" :> "C") @@ ("s" :> "S") @@ ("q" :> "Q") @@ ("t" :> "T")
         @@ ("a" :> "A") @@ ("z" :> "Z")

\* the axis of the i-th number of the command l: "x", "y", or "" for a number
\* that is no coordinate (rx, ry, the rotation and the flags of an arc)
Axis(l, i) ==
    CASE l \in {"H", "h"} -> "x"
      [] l \in {"V", "v"} -> "y"
      [] l \in {"A", "a"} -> IF i = 6 THEN "x" ELSE IF i = 7 THEN "y" ELSE ""
      [] OTHER -> IF i % 2 = 1 THEN "x" ELSE "y"

\* the numbers of the command at the head of commands, the cursor's x added
\* to each x and its y to each y
Shifted ==
    LET l == Head(commands)[1]
    IN  [i \in 1..Arity(l) |->
            Float(commands[i + 1])
            + (CASE Axis(l, i) = "x" -> current_position[1]
                 [] Axis(l, i) = "y" -> current_position[2]
                 [] OTHER -> 0)]

\* what the uppercase command L with the numbers a does in the present state:
\* the error it raises or the points it appends, the cursor and the control
\* point it leaves
UpperOutcome(L, a) ==
    LET cur  == current_position
        none == [exc |-> "", pts |-> <<>>, cur |-> cur, cp |-> control_point]
    IN  CASE L \in {"M", "L"} ->
               LET new == move_position(FALSE, cur, a[1], a[2])
               IN  [none EXCEPT !.pts = <<new>>, !.cur = new]
          [] L = "H" ->
               LET new == horizontal_position(<<"H">>, cur, a[1])
               IN  [none EXCEPT !.pts = <<new>>, !.cur = new]
          [] L = "V" ->
               LET new == vertical_position(<<"V">>, cur, a[1])
               IN  [none EXCEPT !.pts = <<new>>, !.cur = new]
          [] L = "C" ->
               LET b == cubic_bezier(<<"C">>, cur, a)
               IN  [exc |-> "", pts |-> b.pts, cur |-> b.cur, cp |-> b.cp]
          [] L = "Q" ->
               LET b == quadratic_bezier(<<"Q">>, cur, a)
               IN  [exc |-> "", pts |-> b.pts, cur |-> b.cur, cp |-> b.cp]
          [] L = "S" ->
               IF last_command = None THEN [none EXCEPT !.exc = "TypeError"]
               ELSE LET b == smooth_cubic_bezier(<<"S">>, cur,
                                smooth_control_point(last_command, Str_CcSs, cur,
                                                     control_point), a)
                    IN  [exc |-> "", pts |-> b.pts, cur |-> b.cur, cp |-> b.cp]
          [] L = "T" ->
               IF last_command = None THEN [none EXCEPT !.exc = "TypeError"]
               ELSE LET b == smooth_quadratic_bezier(<<"T">>, cur,
                                smooth_control_point(last_command, Str_QqTt, cur,
                                                     control_point), a)
                    IN  [exc |-> "", pts |-> b.pts, cur |-> b.cur, cp |-> b.cp]
          [] L = "A" ->
               LET g == generate_arc_points(cur, a[1], a[2], a[3], a[4], a[5],
                                            << a[6], a[7] >>)
               IN  IF g.exc # "" THEN [none EXCEPT !.exc = g.exc]
                   ELSE [none EXCEPT !.pts = g.pts, !.cur = << a[6], a[7] >>]
          [] L = "Z" ->
               LET z == close_path(points)
               IN  IF z.exc # "" THEN [none EXCEPT !.exc = z.exc]
                   ELSE [none EXCEPT !.pts = << z.pts[Len(z.pts)] >>]

Str_lowercase == <<"m", "l", "h", "v", "c", "s", "q", "t", "a", "z">>

-----------------------------------------------------------------------------
\* the tokens of p[i..] the loop of parse() takes as cmd, one per iteration:
\* each command letter, its numbers passed over, and each other token
RECURSIVE Heads(_, _)
Heads(p, i) ==
    IF i > Len(p) THEN <<>>
    ELSE << p[i] >> \o Heads(p, i + 1 + (IF IsLetter(p[i]) THEN Arity(p[i][1]) ELSE 0))

\* the curve command executed last: its letter, its index among the tokens
\* popped, the token the iteration before it took as cmd (None if it is the
\* first), the cursor it started from, which is its first sample, its sample
\* at t = 1/2 and its last sample
LastCurve ==
    LET l == last_command[1]
        n == Len(Consumed)
        m == Len(points)
        h == Heads(Consumed, 1)
    IN  [letter |-> l,
         at     |-> n - Arity(l),
         before |-> IF Len(h) > 1 THEN h[Len(h) - 1] ELSE None,
         start  |-> points[m - NumPoints],
         middle |-> points[m - (NumPoints \div 2)],
         end    |-> points[m]]

\* the explicit control point the last curve command C/c/S/s/Q/q gave before
\* its endpoint, in absolute coordinates
ExplicitControl ==
    LET n == Len(Consumed)
        c == LastCurve
        x == Float(Consumed[n - 3])
        y == Float(Consumed[n - 2])
    IN  IF c.letter \in {"c", "s", "q"}
        THEN << c.start[1] + x, c.start[2] + y >>
        ELSE << x, y >>

\* C20: S/s and T/t read control_point only to reflect what the command
\* right before them wrote.  Whenever last_command is a letter of a curve
\* family, so that a following smooth command of the family reflects, that
\* command is the one executed immediately before and control_point is the
\* control point it wrote: its explicit one for C/c/S/s/Q/q, the one it
\* sampled with for T/t.  And an S/s (T/t) that follows anything but a command
\* of its own family has used the cursor it started from as control point, not
\* the stored control_point.
C20_ReflectsOnlyFreshControl ==
    (pc = "loop" /\ IsLetter(last_command)
       /\ last_command[1] \in {"C", "c", "S", "s", "Q", "q", "T", "t"})
    => LET c == LastCurve
       IN  /\ c.at >= 1
           /\ Consumed[c.at] = last_command
           /\ \A j \in (c.at + 1)..Len(Consumed) : FloatOk(Consumed[j])
           /\ c.letter \in {"C", "c", "S", "s", "Q", "q"}
                => control_point = ExplicitControl
           /\ c.letter \in {"T", "t"}
                => /\ 4 * c.middle[1] = c.start[1] + 2 * control_point[1] + c.end[1]
                   /\ 4 * c.middle[2] = c.start[2] + 2 * control_point[2] + c.end[2]
           /\ (c.letter \in {"S", "s"} /\ ~InStr(c.before, Str_CcSs))
                => SubSeq(points, Len(points) - NumPoints, Len(points)) =
                     generate_cubic_bezier_points(c.start,
                         c.start \o control_point \o current_position)
           /\ (c.letter \in {"T", "t"} /\ ~InStr(c.before, Str_QqTt))
                => /\ control_point = c.start
                   /\ SubSeq(points, Len(points) - NumPoints, Len(points)) =
                        generate_quadratic_bezier_points(c.start,
                            c.start \o current_position)

\* "q10 5 0 -3 t2.5 1 S7 10 5 0": t reflects the control point q wrote, S
\* after t does not reflect
C20_Witness ==
    /\ LetterAt(1) = "q"
    /\ LetterAt(6) = "t"
    /\ LetterAt(9) = "S"
    /\ pc = "returned"
    /\ Len(points) = 3 * (NumPoints + 1)
    /\ points[NumPoints + 3] # generate_quadratic_bezier_points(
           points[NumPoints + 2], points[NumPoints + 2] \o points[2 * (NumPoints + 1)])[2]

-----------------------------------------------------------------------------
\* the tolerance of C17: 1/1000 of a unit
Tolerance == Scale \div 1000

\* p is within Tolerance of q in each coordinate
Near(p, q) == Abs(p[1] - q[1]) <= Tolerance /\ Abs(p[2] - q[2]) <= Tolerance

\* the distance of p from centre is within Tolerance of r; the squares are
\* those of the halves
AtDistance(p, centre, r) ==
    LET dx == (p[1] - centre[1]) \div 2
        dy == (p[2] - centre[2]) \div 2
        lo == (r - Tolerance) \div 2
        hi == (r + Tolerance) \div 2 + 1
    IN  lo * lo <= dx * dx + dy * dy /\ dx * dx + dy * dy <= hi * hi

\* "A5 5 0 0 1 10 0"
C17_Path == << <<"A">>, <<"5">>, <<"5">>, <<"0">>, <<"0">>, <<"1">>,
               <<"1", "0">>, <<"0">> >>

\* C17: the arc with rx = ry = 5, no rotation, from (0, 0) to (10, 0), large
\* arc 0 and sweep 1 is drawn without error as 11 points, each at distance 5
\* from (5, 0), the first (0, 0) and the last (10, 0) within the tolerance.
C17_SemicircleOfRadius5 ==
    (path = C17_Path /\ commands = <<>>)
      => /\ pc # "raised"
         /\ Len(points) = NumPoints + 1
         /\ \A k \in 1..Len(points) :
               /\ Len(points[k]) = 2
               /\ AtDistance(points[k], <<5 * Scale, 0>>, 5 * Scale)
         /\ Near(points[1], <<0, 0>>)
         /\ Near(points[NumPoints + 1], <<10 * Scale, 0>>)

\* the arc is drawn: its middle sample is (5, -5), the side the code's angles
\* run through
C17_Witness ==
    /\ path = C17_Path
    /\ pc = "returned"
    /\ Near(points[NumPoints \div 2 + 1], <<5 * Scale, 0 - 5 * Scale>>)
    /\ current_position = <<10 * Scale, 0>>

-----------------------------------------------------------------------------
\* what parse() makes of the instance st when nothing else runs
RECURSIVE Alone(_)
Alone(st) == IF st.pc # "loop" THEN st ELSE Alone(parse_step(st))

\* C16: two instances stepped in any interleaving: each step changes the
\* fields of one instance only, and what it makes of them depends on nothing
\* but them; so whatever the other has done, each instance ends, with the
\* points or the error, as it does when run alone.
C16_InstancesIndependent ==
    /\ [](/\ Alone(Self) = Alone(PathParser(path_data))
          /\ Alone(other) = Alone(PathParser(other.path_data)))
    /\ [][ /\ Self' = Self \/ other' = other
           /\ Self' # Self => Self' = parse_step(Self)
           /\ other' # other => other' = parse_step(other) ]_vars

\* both instances have returned, each with the points of its own path
C16_Witness ==
    /\ pc = "returned"
    /\ other.pc = "returned"
    /\ Len(points) = 2
    /\ Len(other.points) = 2 * (NumPoints + 1)
    /\ points # SubSeq(other.points, 1, 2)

-----------------------------------------------------------------------------
\* C21: in a chain Q ... T ... T ..., a T/t executed right after Q, q, T or
\* t samples the quadratic whose control point is the reflection, through the
\* cursor at its start, of the control point the command before it used, and
\* afterwards control_point holds that reflected point: not the control point
\* it reflected and not the cursor.
C21_SmoothQuadraticChain ==
    [][ (ExecutesFull(Str_Tt) /\ last_command \in {<<"Q">>, <<"q">>, <<"T">>, <<"t">>})
          => /\ points' = points \o generate_quadratic_bezier_points(
                                       current_position, Reflection \o AbsArgs(1, 2))
             /\ control_point' = Reflection
             /\ current_position' = AbsArgs(1, 2) ]_vars

\* "q10 5 0 -3 T2.5 1 t7 10": the control point of q reflected twice, through
\* the end of q and through the end of the first T
C21_Witness ==
    /\ LetterAt(1) = "q"
    /\ LetterAt(6) = "T"
    /\ LetterAt(9) = "t"
    /\ pc = "returned"
    /\ Len(points) = 3 * (NumPoints + 1)
    /\ LET cQ == << Float(path[2]), Float(path[3]) >>
           p1 == points[NumPoints + 1]
           p2 == points[2 * (NumPoints + 1)]
           c1 == << 2 * p1[1] - cQ[1], 2 * p1[2] - cQ[2] >>
           c2 == << 2 * p2[1] - c1[1], 2 * p2[2] - c1[2] >>
       IN  /\ control_point = c2
           /\ c2 # cQ
           /\ c2 # c1
           /\ c2 # p2
           /\ c2 # current_position

-----------------------------------------------------------------------------
\* C22: points is append-only: over every step of every parse, failing steps
\* included, points before the step is a prefix of points after it; H/h and
\* V/v, which update the cursor list in place, leave the points recorded
\* before them as they were.
C22_PointsAppendOnly ==
    [][ /\ Len(points') >= Len(points)
        /\ SubSeq(points', 1, Len(points)) = points ]_vars

\* "M10 5 H0 V-3": the point of M is still (10, 5) after H and V have moved
\* the cursor in both coordinates
C22_Witness ==
    /\ LetterAt(1) = "M"
    /\ LetterAt(4) = "H"
    /\ LetterAt(6) = "V"
    /\ pc = "returned"
    /\ Len(points) = 3
    /\ points[1] = << Float(path[2]), Float(path[3]) >>
    /\ points[3] = << Float(path[5]), Float(path[7]) >>
    /\ points[3][1] # points[1][1]
    /\ points[3][2] # points[1][2]

-----------------------------------------------------------------------------
(* parse() run to its end                                                  *)

\* longer paths: every command letter family, stray numbers, and a path whose
\* last command lacks one argument
LivePaths ==
    { Join(Tokens(<<"M", "l", "H", "v", "Z">>, 1, 1, 0, 0)),
      Join(Tokens(<<"m", "C", "s", "#", "z">>, 1, 1, 0, 0)),
      Join(Tokens(<<"q", "t", "T", "#", "L">>, 1, 1, 0, 0)),
      Join(Tokens(<<"M", "Q", "a", "l">>, 1, 1, 0, 0)),
      Join(Tokens(<<"h", "V", "c", "S">>, 1, 1, 4, 1)) }

\* the paths of at most two items, the one-command paths that lack some
\* arguments, and the longer paths above
InitLive ==
    /\ \/ \E m \in 0..2 : \E sh \in Shapes(m) :
             /\ m = 2 => sh[1] \in Lead
             /\ path_data = Join(Tokens(sh, 1, 1, 0, 0))
       \/ \E l \in Letters : \E d \in 1..7 :
             d <= Arity(l) /\ path_data = Join(Tokens(<<l>>, 1, 1, 1, d))
       \/ path_data \in LivePaths
    /\ __init__
    /\ other = None

\* the interpreter keeps executing the while loop of parse(): an iteration
\* or the return that is possible is eventually taken
SpecLive == InitLive /\ [][Next]_vars /\ WF_vars(Next)

\* the tokens still to be read are the last Len(commands) tokens of the path
IsSuffix(s, t) ==
    /\ Len(s) <= Len(t)
    /\ s = SubSeq(t, Len(t) - Len(s) + 1, Len(t))

\* C23: parse() terminates on every token stream: each loop iteration removes
\* at least one token and adds none, so there are at most as many iterations
\* as tokens, and the run ends either returned with the token list empty or
\* in an error.
C23_ParseTerminates ==
    /\ <>(pc = "raised" \/ (pc = "returned" /\ commands = <<>>))
    /\ [][ /\ Looping => /\ Len(commands') < Len(commands)
                         /\ IsSuffix(commands', commands)
           /\ ~Looping => commands' = commands ]_vars

\* a path of at least six tokens read to its end, the last iteration having
\* consumed a number that follows a complete argument group
C23_Witness ==
    /\ pc = "returned"
    /\ commands = <<>>
    /\ Len(path) >= 6
    /\ last_command # None
    /\ NoBranch(last_command)
    /\ points # <<>>

-----------------------------------------------------------------------------
\* the numbers of the A/a at the head of commands lie on the grid of ArcUnit
\* within ArcLimit, the arc is not rotated and it starts at the cursor: its
\* half chord (x1p, y1p) is half of start - end
ArcOnGrid ==
    /\ Float(commands[4]) = 0
    /\ \A v \in {Float(commands[2]), Float(commands[3]),
                 (current_position[1] - ArcEnd[1]) \div 2,
                 (current_position[2] - ArcEnd[2]) \div 2} :
          v % ArcUnit = 0 /\ Abs(v) <= ArcLimit * ArcUnit

\* numerator and denominator, in units of ArcUnit^2, of the quotient under
\* the square root of the arc centre
ArcQuotient ==
    LET a == Float(commands[2]) \div ArcUnit
        b == Float(commands[3]) \div ArcUnit
        x == ((current_position[1] - ArcEnd[1]) \div 2) \div ArcUnit
        y == ((current_position[2] - ArcEnd[2]) \div 2) \div ArcUnit
    IN  [n |-> a * a * b * b - a * a * y * y - b * b * x * x,
         d |-> a * a * y * y + b * b * x * x]

\* C24: the arc centre is computed from the exact quotient clamped below at
\* 0, with no integer truncation: whenever an arc is drawn whose quotient is
\* positive, the radicand the handler uses is that quotient (rx = ry = 6 from
\* (0, 0) to (10, 0): 0.44, not 0), so the first sample of the arc is its
\* start point.
C24_RadicandNotTruncated ==
    [][ (ExecutesFull(Str_Aa) /\ ArcArgsConvert /\ pc' = "loop" /\ ArcOnGrid
           /\ ArcQuotient.n > 0)
          => LET used == generate_arc_points_radicand(
                            Float(commands[2]), Float(commands[3]),
                            (current_position[1] - ArcEnd[1]) \div 2,
                            (current_position[2] - ArcEnd[2]) \div 2)
             IN  /\ used * ArcQuotient.d = ArcQuotient.n
                 /\ used = 0 => Near(points'[Len(points) + 1], current_position) ]_vars

-----------------------------------------------------------------------------
(* Arcs whose flags are written without a separator                        *)

FlagSeps == { <<>>, <<" ">>, <<",">> }
FlagSigns == { <<"-">>, <<" ">> }

\* "A5 5 0 " f1 sep f2 sign "10 20"
FlagPath(f1, sep, f2, sign) ==
    <<"A", "5", " ", "5", " ", "0", " ">> \o f1 \o sep \o f2 \o sign
       \o <<"1", "0", " ", "2", "0">>

\* those arcs, among the paths of at most two items
InitFlags ==
    /\ \/ \E f1 \in ArcFlags : \E sep \in FlagSeps : \E f2 \in ArcFlags :
             \E sign \in FlagSigns : path_data = FlagPath(f1, sep, f2, sign)
       \/ \E m \in 0..2 : \E sh \in Shapes(m) :
             path_data = Join(Tokens(sh, 1, 1, 0, 0))
    /\ __init__
    /\ other = None

SpecFlags == InitFlags /\ [][Next]_vars

\* C25: the flags of an arc are lexed by the number rule alone: two flags
\* written without a separator ("01", "11") are one token, so the A of
\* "A5 5 0 01-10 20" is followed by six numeric tokens only and fails for
\* lack of its seventh argument; flags with a separator are two tokens.
C25_FlagsLexedAsNumbers ==
    \A f1 \in ArcFlags : \A sep \in FlagSeps : \A f2 \in ArcFlags :
       \A sign \in FlagSigns :
          path_data = FlagPath(f1, sep, f2, sign)
            => LET x == IF sign = <<"-">> THEN <<"-", "1", "0">> ELSE <<"1", "0">>
                   front == << <<"A">>, <<"5">>, <<"5">>, <<"0">> >>
               IN  IF sep = <<>>
                   THEN /\ path = front \o << f1 \o f2, x, <<"2", "0">> >>
                        /\ pc # "returned"
                        /\ pc = "raised"
                             => exc = "IndexError" /\ points = <<>> /\ commands = <<>>
                   ELSE /\ path = front \o << f1, f2, x, <<"2", "0">> >>
                        /\ pc # "raised"

\* "A5 5 0 01-10 20": A, 5, 5, 0, 01, -10, 20, and the A has failed
C25_Witness ==
    /\ path_data = FlagPath(<<"0">>, <<>>, <<"1">>, <<"-">>)
    /\ Len(path) = 7
    /\ path[5] = <<"0", "1">>
    /\ pc = "raised"
    /\ exc = "IndexError"

-----------------------------------------------------------------------------
(* Renderer.draw_path: the interpreter written out in the method, on the   *)
(* local variables of one call, held in other.  Its curve generators are   *)
(* the statements of PathParser's but for the radicand of the arc.  The    *)
(* drawing calls after the loop are not part of the interpreter.           *)

\* the locals of draw_path(element) before its loop, for element['d'] = d
draw_path(d) ==
    [commands |-> findall(d, 1), current_position |-> <<0, 0>>, points |-> <<>>,
     last_command |-> None, control_point |-> None, pc |-> "loop", exc |-> ""]

\* rx, ry, x_rot: float; large_arc, sweep: int; x, y: float
draw_path_conversions == <<"float", "float", "float", "int", "int", "float", "float">>

\* Renderer.generate_arc_points: radicand = max(0, quotient), not truncated.
\* When the quotient is not positive or is a whole number, the radicand is
\* the one PathParser.generate_arc_points uses and so are the samples; any
\* other quotient gives another centre, and the samples are kept as terms
\* that carry the quotient (0 over 0 where the model does not compute it:
\* a rotated arc or numbers off the grid of ArcUnit).
Renderer_generate_arc_points(start_point, rx, ry, x_rot, large_arc, sweep, end_point) ==
    LET x1p == (start_point[1] - end_point[1]) \div 2
        y1p == (start_point[2] - end_point[2]) \div 2
        g == generate_arc_points(start_point, rx, ry, x_rot, large_arc, sweep,
                                 end_point)
        grid == /\ x_rot = 0
                /\ \A v \in {rx, ry, x1p, y1p} :
                      v % ArcUnit = 0 /\ Abs(v) <= ArcLimit * ArcUnit
        a == rx \div ArcUnit
        b == ry \div ArcUnit
        x == x1p \div ArcUnit
        y == y1p \div ArcUnit
        n == a * a * b * b - a * a * y * y - b * b * x * x
        d == a * a * y * y + b * b * x * x
    IN  IF g.exc # "" THEN g
        ELSE IF grid /\ (n <= 0 \/ n % d = 0) THEN g
        ELSE [exc |-> "",
              pts |-> [k \in 1..(NumPoints + 1) |->
                         << k - 1, rx, ry, x_rot, large_arc, sweep,
                            start_point[1], start_point[2],
                            end_point[1], end_point[2],
                            IF grid THEN n ELSE 0, IF grid THEN d ELSE 0 >>]]

\* the while loop of draw_path on the locals st: one iteration, or the end
\* of the loop.  last_command is assigned at the end of each branch, so a
\* token no branch takes leaves it as it was.
draw_path_step(st) ==
    IF st.pc # "loop" THEN st
    ELSE IF st.commands = <<>> THEN [st EXCEPT !.pc = "returned"]
    ELSE
    LET cmd  == Head(st.commands)
        rest == Tail(st.commands)
        cur  == st.current_position
        cp   == st.control_point
        pts  == st.points
        n    == IF IsLetter(cmd) THEN Arity(cmd[1]) ELSE 0
        r    == PopArgs(rest, IF InStr(cmd, Str_Aa) THEN draw_path_conversions
                              ELSE Floats(n), <<>>)
    IN  CASE InStr(cmd, Str_Mm) \/ InStr(cmd, Str_Ll) ->
               IF r.exc # "" THEN Raised(st, r.exc, r.rest, cp)
               ELSE LET new == move_position(cmd \in {<<"m">>, <<"l">>}, cur,
                                             r.vals[1], r.vals[2])
                    IN  Handled(st, cmd, r.rest, new, cp, Append(pts, new))
          [] InStr(cmd, Str_Hh) ->
               IF r.exc # "" THEN Raised(st, r.exc, r.rest, cp)
               ELSE LET new == horizontal_position(cmd, cur, r.vals[1])
                    IN  Handled(st, cmd, r.rest, new, cp, Append(pts, new))
          [] InStr(cmd, Str_Vv) ->
               IF r.exc # "" THEN Raised(st, r.exc, r.rest, cp)
               ELSE LET new == vertical_position(cmd, cur, r.vals[1])
                    IN  Handled(st, cmd, r.rest, new, cp, Append(pts, new))
          [] InStr(cmd, Str_Cc) ->
               IF r.exc # "" THEN Raised(st, r.exc, r.rest, cp)
               ELSE LET b == cubic_bezier(cmd, cur, r.vals)
                    IN  Handled(st, cmd, r.rest, b.cur, b.cp, pts \o b.pts)
          [] InStr(cmd, Str_Qq) ->
               IF r.exc # "" THEN Raised(st, r.exc, r.rest, cp)
               ELSE LET b == quadratic_bezier(cmd, cur, r.vals)
                    IN  Handled(st, cmd, r.rest, b.cur, b.cp, pts \o b.pts)
          [] InStr(cmd, Str_Ss) \/ InStr(cmd, Str_Tt) ->
               IF st.last_command = None THEN Raised(st, "TypeError", rest, cp)
               ELSE LET cubic == InStr(cmd, Str_Ss)
                        c1 == smooth_control_point(st.last_command,
                                  IF cubic THEN Str_CcSs ELSE Str_QqTt, cur, cp)
                    IN  IF r.exc # "" THEN Raised(st, r.exc, r.rest, c1)
                        ELSE LET b == IF cubic
                                      THEN smooth_cubic_bezier(cmd, cur, c1, r.vals)
                                      ELSE smooth_quadratic_bezier(cmd, cur, c1, r.vals)
                             IN  Handled(st, cmd, r.rest, b.cur, b.cp, pts \o b.pts)
          [] InStr(cmd, Str_Aa) ->
               IF r.exc # "" THEN Raised(st, r.exc, r.rest, cp)
               ELSE LET a == r.vals
                        end == move_position(cmd = <<"a">>, cur, a[6], a[7])
                        g == Renderer_generate_arc_points(cur, a[1], a[2], a[3],
                                                          a[4], a[5], end)
                    IN  IF g.exc # "" THEN Raised(st, g.exc, r.rest, cp)
                        ELSE Handled(st, cmd, r.rest, end, cp, pts \o g.pts)
          [] InStr(cmd, Str_Zz) ->
               LET z == close_path(pts)
               IN  IF z.exc # "" THEN Raised(st, z.exc, rest, cp)
                   ELSE Handled(st, cmd, rest, cur, cp, z.pts)
          [] OTHER -> [st EXCEPT !.commands = rest]

\* draw_path runs one iteration of its loop
step_draw_path ==
    /\ other.pc = "loop"
    /\ other' = draw_path_step(other)
    /\ UNCHANGED <<commands, current_position, points, last_command,
                   control_point, pc, exc, path, path_data>>

\* arcs with a decimal endpoint and with a decimal flag:
\* "A 5 5 0 0 1 10.5 0" and "A 5 5 0 2.5 1 10 0"
DecimalArcs ==
    { Join(<< <<"A">>, <<"5">>, <<"5">>, <<"0">>, <<"0">>, <<"1">>,
              <<"1", "0", ".", "5">>, <<"0">> >>),
      Join(<< <<"A">>, <<"5">>, <<"5">>, <<"0">>, <<"2", ".", "5">>, <<"1">>,
              <<"1", "0">>, <<"0">> >>) }

\* one path string given to both interpreters: the paths of at most two
\* items other than arcs, the one-command paths that lack some arguments, the
\* arcs along an axis and the arcs above
InitBoth ==
    /\ \/ \E m \in 0..2 : \E sh \in Shapes(m) :
             /\ \A i \in 1..m : sh[i] \notin {"A", "a"}
             /\ path_data = Join(Tokens(sh, 1, 1, 0, 0))
       \/ \E l \in Letters : \E d \in 1..7 :
             d <= Arity(l) /\ path_data = Join(Tokens(<<l>>, 1, 1, 1, d))
       \/ \E rx \in ArcRadii : \E ry \in ArcRadii : \E la \in ArcFlags :
             \E sw \in ArcFlags : \E e \in ArcEnds :
                path_data = Join(<< <<"A">>, rx, ry, <<"0">>, la, sw, e[1], e[2] >>)
       \/ path_data \in DecimalArcs
    /\ __init__
    /\ other = draw_path(path_data)

NextBoth == Next \/ step_draw_path

SpecBoth == InitBoth /\ [][NextBoth]_vars

\* C26: the two interpreters agree: on every path string, once both have
\* stopped, either both have failed or both have come to the end of the
\* tokens with the same points; and whenever both have the same tokens left
\* after a command, that is after the same number of commands, their points,
\* current_position, control_point and last_command are equal.
C26_InterpretersAgree ==
    /\ (pc = "loop" /\ other.pc = "loop" /\ commands = other.commands
          /\ (last_command = None \/ IsLetter(last_command)))
          => /\ points = other.points
             /\ current_position = other.current_position
             /\ control_point = other.control_point
             /\ last_command = other.last_command
    /\ (pc # "loop" /\ other.pc # "loop")
          => /\ pc = other.pc
             /\ pc = "returned" => points = other.points

-----------------------------------------------------------------------------
(* main.convert: Parser.parse turns the children of the SVG root into      *)
(* element dicts and Renderer.draw_elements draws them.  other holds the   *)
(* run of one convert(); a dict is the function from its keys to where the *)
(* value came from, the attribute ("given") or the default of              *)
(* attributes.get ("default"); attribute values are ones the conversions   *)
(* of parse_<tag> accept.  No PathParser runs here.                        *)

\* the most children of the SVG root
MaxElements == 2

\* self.parsed_elements and self.elements_supported (main passes scale as
\* elements_supported; __init__ assigns the full list whatever it is given)
parsed_elements == {"rect", "circle", "line", "ellipse", "path", "polyline"}
elements_supported == {"rect", "circle", "line", "ellipse", "path", "polyline"}

\* the local names of the children: the six parsed ones and one that is not
Tags == parsed_elements \cup {"g"}

\* the attributes a child may carry, besides those with accepted values
Attributes == {"points", "width"}

\* the dict literal of parse_<tag>: "type" and one key per attributes.get
ElementDict(type, keys, attributes) ==
    [k \in keys \cup {"type"} |->
        IF k = "type" THEN type
        ELSE IF k \in attributes THEN "given" ELSE "default"]

parse_rect(attributes) ==
    ElementDict("rect", {"x", "y", "width", "height", "stroke", "stroke-width",
                         "fill"}, attributes)

parse_circle(attributes) ==
    ElementDict("circle", {"cx", "cy", "r", "fill", "stroke-width", "stroke"},
                attributes)

parse_line(attributes) ==
    ElementDict("line", {"x1", "y1", "x2", "y2", "stroke-width", "stroke"},
                attributes)

parse_ellipse(attributes) ==
    ElementDict("ellipse", {"cx", "cy", "rx", "ry", "stroke", "stroke-width",
                            "fill"}, attributes)

parse_path(attributes) ==
    ElementDict("path", {"d", "stroke", "stroke-width", "fill"}, attributes)

parse_polyline(attributes) ==
    ElementDict("polyline", {"points", "stroke", "stroke-width", "fill"},
                attributes)

\* getattr(Parser, f"parse_{tag}")(attributes)
parse_function(tag, attributes) ==
    CASE tag = "rect" -> parse_rect(attributes)
      [] tag = "circle" -> parse_circle(attributes)
      [] tag = "line" -> parse_line(attributes)
      [] tag = "ellipse" -> parse_ellipse(attributes)
      [] tag = "path" -> parse_path(attributes)
      [] tag = "polyline" -> parse_polyline(attributes)

\* element[k] for each k of keys in turn: KeyError at the first key the dict
\* lacks
RECURSIVE Subscripts(_, _)
Subscripts(element, keys) ==
    IF keys = <<>> THEN ""
    ELSE IF Head(keys) \notin DOMAIN element THEN "KeyError"
    ELSE Subscripts(element, Tail(keys))

draw_rect(element) ==
    Subscripts(element, <<"x", "y", "width", "height", "fill", "stroke", "width">>)

draw_circle(element) ==
    Subscripts(element, <<"cx", "cy", "r", "fill", "stroke", "width">>)

draw_line(element) ==
    Subscripts(element, <<"x1", "y1", "x2", "y2", "stroke", "width">>)

draw_ellipse(element) ==
    Subscripts(element, <<"cx", "cy", "rx", "ry", "stroke", "fill", "width">>)

\* element['points'] is split and converted before the other keys are read:
\* the default "" gives float('') and ValueError
draw_polyline(element) ==
    IF "points" \notin DOMAIN element THEN "KeyError"
    ELSE IF element["points"] = "default" THEN "ValueError"
    ELSE Subscripts(element, <<"stroke", "fill", "width">>)

\* the four subscripts at the head of draw_path; the interpreter after them
\* is draw_path_step above
draw_element_path(element) ==
    Subscripts(element, <<"d", "stroke", "fill", "width">>)

\* getattr(self, f"draw_{element_type}")(element)
draw_function(element) ==
    CASE element["type"] = "rect" -> draw_rect(element)
      [] element["type"] = "circle" -> draw_circle(element)
      [] element["type"] = "line" -> draw_line(element)
      [] element["type"] = "ellipse" -> draw_ellipse(element)
      [] element["type"] = "path" -> draw_element_path(element)
      [] element["type"] = "polyline" -> draw_polyline(element)

\* convert(input, output) on a file whose root has the children root
convert(root) ==
    [root |-> root, elements |-> <<>>, todo |-> <<>>, pc |-> "parse", exc |-> ""]

PathParserIdle ==
    UNCHANGED <<commands, current_position, points, last_command,
                control_point, pc, exc, path, path_data>>

\* Parser.parse: one iteration of `for element in root`
parse_element ==
    /\ other.pc = "parse"
    /\ other.root # <<>>
    /\ LET element == Head(other.root)
       IN  other' = [other EXCEPT
                       !.root = Tail(other.root),
                       !.elements =
                          IF element.tag \in parsed_elements
                          THEN Append(other.elements,
                                      parse_function(element.tag, element.attrib))
                          ELSE other.elements]
    /\ PathParserIdle

\* Parser.parse returns elements; convert builds the Renderer and calls
\* draw_elements(elements)
parse_return ==
    /\ other.pc = "parse"
    /\ other.root = <<>>
    /\ other' = [other EXCEPT !.pc = "draw", !.todo = other.elements]
    /\ PathParserIdle

\* Renderer.draw_elements: one iteration of `for element in elements`
draw_elements ==
    /\ other.pc = "draw"
    /\ other.todo # <<>>
    /\ LET element == Head(other.todo)
           e == IF element["type"] \in elements_supported
                THEN draw_function(element) ELSE ""
       IN  other' = IF e # "" THEN [other EXCEPT !.pc = "raised", !.exc = e]
                    ELSE [other EXCEPT !.todo = Tail(other.todo)]
    /\ PathParserIdle

\* draw_elements returns and convert saves the image
save_PNG ==
    /\ other.pc = "draw"
    /\ other.todo = <<>>
    /\ other' = [other EXCEPT !.pc = "saved"]
    /\ PathParserIdle

\* every root of at most MaxElements children
InitElements ==
    /\ path_data = <<>>
    /\ __init__
    /\ \E n \in 0..MaxElements :
          \E root \in [1..n -> [tag : Tags, attrib : SUBSET Attributes]] :
             other = convert(root)

NextElements == parse_element \/ parse_return \/ draw_elements \/ save_PNG

SpecElements == InitElements /\ [][NextElements]_vars

\* C27: every element dict Parser.parse produces has every key the draw
\* method chosen for its type reads: drawing the parsed elements of any
\* document never fails on a missing key.
C27_DrawFindsEveryKey ==
    other.pc = "raised" => other.exc # "KeyError"

=============================================================================
